---- MODULE Spec2Model ----
(***************************************************************************)
(* Extraction-validation loop of autoparts_recognition-extra:              *)
(*   src/gemini_model.py  GeminiInference (get_response, extract_number,   *)
(*                        format_part_number, validate_number,             *)
(*                        double_check_confused_digits, __call__)          *)
(*   src/main.py          encode, reduce                                   *)
(*                                                                         *)
(* A text is a sequence of tokens.  A token is one character ("5", " ",    *)
(* "\t", "\n", ...) or one of the tags the code searches for as a          *)
(* substring ("<START>", "<END>", "<VALID>", "<INVALID>", "<CORRECTED>",    *)
(* "<UNCHANGED>"), taken as a unit.                                        *)
(***************************************************************************)
EXTENDS Integers, Sequences, FiniteSets, TLC

(***************************************************************************)
(* String primitives of Python used by the code.                           *)
(***************************************************************************)

\* str.strip() without argument strips these from both ends
Whitespace == {" ", "\t", "\n"}

RECURSIVE LStrip(_)
LStrip(s) ==
  IF s = <<>> THEN <<>>
  ELSE IF Head(s) \in Whitespace THEN LStrip(Tail(s)) ELSE s

RECURSIVE RStrip(_)
RStrip(s) ==
  IF s = <<>> THEN <<>>
  ELSE IF s[Len(s)] \in Whitespace THEN RStrip(SubSeq(s, 1, Len(s) - 1)) ELSE s

Strip(s) == RStrip(LStrip(s))

\* str.replace(c, '') for a single character c
RECURSIVE Remove(_, _)
Remove(s, c) ==
  IF s = <<>> THEN <<>>
  ELSE IF Head(s) = c THEN Remove(Tail(s), c)
       ELSE <<Head(s)>> \o Remove(Tail(s), c)

\* str.upper(), on the letters the texts of the model use
UpperChar(c) ==
  CASE c = "n" -> "N"
    [] c = "o" -> "O"
    [] c = "e" -> "E"
    [] c = "l" -> "L"
    [] c = "a" -> "A"
    [] c = "b" -> "B"
    [] c = "k" -> "K"
    [] OTHER -> c

Upper(s) == [i \in 1..Len(s) |-> UpperChar(s[i])]

\* str.lower(), on the letters the texts of the model use
LowerChar(c) ==
  CASE c = "N" -> "n"
    [] c = "O" -> "o"
    [] c = "E" -> "e"
    [] c = "L" -> "l"
    [] c = "A" -> "a"
    [] c = "B" -> "b"
    [] c = "K" -> "k"
    [] c = "C" -> "c"
    [] c = "D" -> "d"
    [] OTHER -> c

Lower(s) == [i \in 1..Len(s) |-> LowerChar(s[i])]

\* tag in text
Contains(s, tag) == \E i \in 1..Len(s) : s[i] = tag

\* str.split(tag): the list of segments between occurrences of tag
RECURSIVE Split(_, _)
Split(s, tag) ==
  IF ~Contains(s, tag) THEN <<s>>
  ELSE LET i == CHOOSE k \in 1..Len(s) : s[k] = tag /\ \A j \in 1..(k - 1) : s[j] # tag
       IN  <<SubSeq(s, 1, i - 1)>> \o Split(SubSeq(s, i + 1, Len(s)), tag)

\* ', '.join(list)
RECURSIVE Join(_)
Join(list) ==
  IF list = <<>> THEN <<>>
  ELSE IF Len(list) = 1 THEN list[1]
       ELSE list[1] \o <<",", " ">> \o Join(Tail(list))

NONE == <<"N", "O", "N", "E">>

\* slip: the test without upper()
IsNoneCaseSensitive(x) == x = NONE

\* x.upper() != "NONE" is the code's test for a candidate
IsNone(x) == Upper(x) = NONE

(***************************************************************************)
(* Answer parser.                                                          *)
(***************************************************************************)

\* slip: the third group is not cut at position 9
format_part_number_uncut(number) ==
  LET n == Remove(Remove(number, "-"), " ")
  IN  IF Len(n) < 9 THEN n
      ELSE Strip(SubSeq(n, 1, 3) \o <<" ">> \o SubSeq(n, 4, 6)
                 \o <<" ">> \o SubSeq(n, 7, Len(n)))

format_part_number(number) ==
  LET n == Remove(Remove(number, "-"), " ")
  IN  IF Len(n) < 9 THEN n
      ELSE LET formatted == SubSeq(n, 1, 3) \o <<" ">> \o SubSeq(n, 4, 6)
                            \o <<" ">> \o SubSeq(n, 7, 9)
               rest == IF Len(n) > 9 THEN <<" ">> \o SubSeq(n, 10, Len(n)) ELSE <<>>
           IN  Strip(formatted \o rest)

\* slip: split('<START>')[1], the text after the first start delimiter
extract_number_first_start(response) ==
  LET afterStart == Split(response, "<START>")
      number == Strip(Split(afterStart[IF Len(afterStart) > 1 THEN 2 ELSE 1], "<END>")[1])
  IN  IF ~IsNone(number) THEN format_part_number(number) ELSE number

extract_number(response) ==
  LET afterStart == Split(response, "<START>")
      number == Strip(Split(afterStart[Len(afterStart)], "<END>")[1])
  IN  IF ~IsNone(number) THEN format_part_number(number) ELSE number

(***************************************************************************)
(* Bounds of the model and constants of the program.                       *)
(***************************************************************************)

\* sessions (calls of GeminiInference.__call__) started in one run
MaxSessions == 2

\* tokens around the delimited part of a text given to extract_number
MaxFrame == 2

\* hyphens, spaces and tabs around a number given to format_part_number
MaxPad == 1

\* listings collected by reduce when it is run with encode taken in one step
MaxLinks == 10

max_attempts == 3
max_retries == 20
base_delay == 5
reduce_max_retries == 20
save_every == 10

(***************************************************************************)
(* Texts the inference service can answer with.                            *)
(***************************************************************************)

\* answers to the extraction instruction
Answers ==
  { <<"b", "<START>", " ", "5", "K", "0", "9", "3", "7", "0", "8", "7", "A", "C", " ", "<END>", "b">>,
    <<"<START>", "N", "O", "N", "E", "<END>">>,
    <<"<START>", " ", "n", "o", "n", "e", " ", "<END>">>,
    <<"5", "K", "0", "-", "9", "3", "7", "-", "0", "8", "7", " ", "A", "C">> }

\* answers to the validation instruction
OracleResponses ==
  { <<"<VALID>", " ", "o", "k">>,
    <<"<INVALID>", " ", "b", "a", "d">>,
    <<"<INVALID>", " ", "<VALID>">>,
    <<"n", "o">> }

\* answers to the confused-digits instruction
CorrectionResponses ==
  { <<"<UNCHANGED>", " ", "o", "k">>,
    <<"<CORRECTED>", " ", "5", "K", "0", "9", "3", "7", "0", "8", "7", "A", "D", "\n", "o", "k">>,
    <<"<CORRECTED>", " ", "n", "o", "n", "e">>,
    <<"o", "k">> }

\* listings collected by reduce
all_links == <<"l1", "l2">>

\* ranked photographs the relevance scorer can deliver for a listing; the
\* photographs of the page are taken to be the ranked ones
Rankings == { <<>>, <<"p1">>, <<"p1", "p2">> }

ErrorKinds == {"quota", "other"}

\* how many requests of one get_response call the service answers with a
\* quota error before it answers with something else
QuotaRuns == {0, max_retries - 1, max_retries, max_retries + 1}

\* all sequences over a set of tokens, up to a length
SeqsUpTo(tokens, n) == UNION {[1..k -> tokens] : k \in 0..n}

\* texts given to extract_number: a payload between two frames, the
\* delimiters anywhere in the frames
Payloads ==
  { <<" ", "5", "K", "0", "9", "3", "7", "0", "8", "7", "A", "C", " ">>,
    <<"5", "K", "0", "-", "9", "3", "7", "-", "0", "8", "7">>,
    <<"1", "2", "3", "4">>,
    <<"N", "O", "N", "E">>,
    <<" ", "n", "o", "n", "e", "\n">>,
    <<>> }

Responses ==
  { pre \o payload \o post :
      pre \in SeqsUpTo({"<START>", "<END>", " ", "b"}, MaxFrame),
      payload \in Payloads,
      post \in SeqsUpTo({"<START>", "<END>", " ", "b"}, MaxFrame) }

\* strings given to format_part_number
Bodies ==
  { <<"1", "2", "3", "4">>,
    <<"1", "2", "3", "4", "5", "6", "7", "8">>,
    <<"1", "2", "3", "4", "5", "6", "7", "8", "9">>,
    <<"5", "K", "0", "9", "3", "7", "0", "8", "7", "A", "C">>,
    <<"5", "K", "0", " ", "9", "3", "7", " ", "0", "8", "7", " ", "A", "C">>,
    <<"5", "K", "0", "-", "9", "3", "7", "-", "0", "8", "7">>,
    <<"5", "K", "0", "9", "3", "7", "0", "8", "7", "A", "C", "Z", "1", "5">> }

Numbers ==
  { pre \o body \o post :
      pre \in SeqsUpTo({" ", "-", "\t"}, MaxPad),
      body \in Bodies,
      post \in SeqsUpTo({" ", "-", "\t"}, MaxPad) }

(***************************************************************************)
(* State.                                                                  *)
(***************************************************************************)
VARIABLES
  prompt,                  \* self.prompt: the blocks appended to the base instruction
  incorrect_predictions,   \* self.incorrect_predictions
  pc,                      \* position of the single thread of control
  attempt,                 \* __call__: attempt
  original_prompt,         \* __call__: original_prompt
  answer,                  \* __call__: answer
  extracted_number,        \* __call__: extracted_number
  corrected_number,        \* __call__: corrected_number
  requests,                \* get_response: requests issued by the last call
  ret,                     \* value returned by __call__
  err,                     \* kind of the exception being propagated
  images_probs,            \* encode: ranked photographs
  pass,                    \* encode: first or second loop over the photographs
  idx,                     \* encode: position in images_probs
  link,                    \* reduce: i + 1
  rattempt,                \* reduce: attempt
  ignore_error,            \* reduce: ignore_error
  links,                   \* reduce: all_links
  result,                  \* reduce: result
  sessions,                \* sessions started so far
  calls,                   \* get_response invocations of the session
  nValidate,               \* validate_number invocations of the session
  nCorrect,                \* double_check_confused_digits invocations of the session
  lastOracle,              \* subject and verdict of the last validate_number call
  outcome,                 \* how the last session ended
  raw_text,                \* extract_number: response
  part_number,             \* extract_number, format_part_number: number
  formatted_number,        \* format_part_number: formatted_number
  delay                    \* get_response: delay of the last backoff sleep, in seconds

vars == <<prompt, incorrect_predictions, pc, attempt, original_prompt, answer,
          extracted_number, corrected_number, requests, ret, err, images_probs,
          pass, idx, link, rattempt, ignore_error, links, result, sessions, calls,
          nValidate, nCorrect, lastOracle, outcome, raw_text, part_number,
          formatted_number, delay>>

instance == <<prompt, incorrect_predictions>>
frame == <<attempt, original_prompt, answer, extracted_number, corrected_number, requests>>
encodeFrame == <<images_probs, pass, idx>>
reduceFrame == <<link, rattempt, ignore_error, links, result>>
ghost == <<calls, nValidate, nCorrect, lastOracle>>
pure == <<raw_text, part_number, formatted_number, delay>>

\* a local that is not assigned
NoValue == <<"<unset>">>
NoOracle == [subject |-> NoValue, confirmed |-> FALSE, called |-> FALSE, image |-> "none"]

\* a validate_number call and its result: generate_content(prompt) is given
\* the prompt, a text that embeds the number, and no image part
ValidatorRequest(number, valid) ==
  [subject |-> number, confirmed |-> valid, called |-> TRUE, image |-> "none"]

EmptyResult ==
  [predicted_number |-> <<>>, url |-> <<>>, price |-> <<>>,
   correct_image_link |-> <<>>, incorrect_image_links |-> <<>>]

Init ==
  /\ prompt = <<>>
  /\ incorrect_predictions = <<>>
  /\ pc = "reduce"
  /\ attempt = 0
  /\ original_prompt = <<>>
  /\ answer = NoValue
  /\ extracted_number = NoValue
  /\ corrected_number = NoValue
  /\ requests = 0
  /\ ret = NoValue
  /\ err = "none"
  /\ images_probs = <<>>
  /\ pass = 1
  /\ idx = 1
  /\ link = 1
  /\ rattempt = 0
  /\ ignore_error \in BOOLEAN
  /\ links = all_links
  /\ result = EmptyResult
  /\ sessions = 0
  /\ calls = 0
  /\ nValidate = 0
  /\ nCorrect = 0
  /\ lastOracle = NoOracle
  /\ outcome = "none"
  /\ raw_text = NoValue
  /\ part_number = NoValue
  /\ formatted_number = NoValue
  /\ delay = 0

(***************************************************************************)
(* GeminiInference.get_response: the retry loop.                           *)
(***************************************************************************)

\* The service answers the first `quota` requests of the call with a quota
\* error and the next one with `final` ("text" or "error").  The result is how
\* the call ends and the number of requests it has issued.
\* slip: the loop runs once more than max_retries
RECURSIVE get_response_one_more(_, _, _)
get_response_one_more(att, quota, final) ==
  IF att > max_retries
  THEN [status |-> "exhausted", requests |-> att]
  ELSE IF quota > 0
       THEN get_response_one_more(att + 1, quota - 1, final)
       ELSE [status |-> final, requests |-> att + 1]

\* slip: every exception is retried, not only a quota error
RECURSIVE get_response_retries_errors(_, _, _)
get_response_retries_errors(att, quota, final) ==
  IF att >= max_retries
  THEN [status |-> "exhausted", requests |-> att]
  ELSE IF quota > 0 \/ final = "error"
       THEN get_response_retries_errors(att + 1, IF quota > 0 THEN quota - 1 ELSE 0, final)
       ELSE [status |-> final, requests |-> att + 1]

RECURSIVE get_response(_, _, _)
get_response(att, quota, final) ==
  IF att >= max_retries
  THEN [status |-> "exhausted", requests |-> att]
  ELSE IF quota > 0
       THEN get_response(att + 1, quota - 1, final)
       ELSE [status |-> final, requests |-> att + 1]

\* "<VALID>" in validation_result, gemini_model.py:304 and 312
IsValid(validation_result) == Contains(validation_result, "<VALID>")

\* what that test yields on the answers to the validation instruction
Verdicts == {IsValid(response) : response \in OracleResponses}

\* the candidate extract_number returns for each answer, and the way
\* get_response ends for each run of quota errors
ExtractedOf == [text \in Answers |-> extract_number(text)]

ResponseOf ==
  [quota \in QuotaRuns |->
     [final \in {"text", "error"} |-> get_response(0, quota, final)]]

(***************************************************************************)
(* GeminiInference.__call__: one session on one photograph.                *)
(***************************************************************************)

\* slip: the list is left as it is
reset_keeps_predictions(predictions) == predictions

reset_incorrect_predictions(predictions) == <<>>

\* slip: the list is read before the candidate of the round is appended
specific_prompt_stale(original, att, extracted, predictions) ==
  Append(original,
         [n |-> att + 2,
          invalid |-> IF ~IsNone(extracted) THEN <<extracted>> ELSE <<>>,
          listed |-> Join(SubSeq(predictions, 1, Len(predictions) - 1))])

\* the re-prompt built at the end of a round that is not the last one
specific_prompt(original, att, extracted, predictions) ==
  Append(original,
         [n |-> att + 2,
          invalid |-> IF ~IsNone(extracted) THEN <<extracted>> ELSE <<>>,
          listed |-> Join(predictions)])

\* for attempt in range(max_attempts): the value after att, and the test
\* that ends the loop
\* slip: the round counter is not advanced
NextAttemptStuck(att) == att

NextAttempt(att) == att + 1

\* slip: one round too many
InRangeOffByOne(att) == att <= max_attempts

InRange(att) == att < max_attempts

\* slip: the extracted candidate is recorded instead of the corrected one
RejectExtracted(predictions, extracted, corrected) == Append(predictions, extracted)

\* self.incorrect_predictions.append(corrected_number), gemini_model.py:318
RejectCorrected(predictions, extracted, corrected) == Append(predictions, corrected)

\* slip: the candidate of before the correction is returned
FinalResultExtracted(extracted, corrected) == extracted

\* return corrected_number, gemini_model.py:315
FinalResult(extracted, corrected) == corrected

\* the exception leaves __call__: its locals are gone, self.prompt and
\* self.incorrect_predictions stay as they are
Raise(kind) ==
  /\ pc' = "raised"
  /\ err' = kind
  /\ outcome' = "RAISED"
  /\ answer' = NoValue
  /\ extracted_number' = NoValue
  /\ corrected_number' = NoValue
  /\ UNCHANGED <<prompt, incorrect_predictions, attempt, ret>>

\* return of an identifier
Accept(number) ==
  /\ incorrect_predictions' = reset_incorrect_predictions(incorrect_predictions)
  /\ prompt' = original_prompt
  /\ ret' = number
  /\ pc' = "returned"
  /\ outcome' = "ACCEPTED"
  /\ answer' = NoValue
  /\ UNCHANGED <<attempt, err, corrected_number>>

\* end of a round that returned nothing; predictions is the memory after the
\* round and extracted the candidate of the round.  answer and
\* corrected_number are not read again before they are assigned.
EndRound(predictions, extracted) ==
  /\ answer' = NoValue
  /\ corrected_number' = NoValue
  /\ IF InRange(NextAttempt(attempt))
     THEN /\ prompt' = IF attempt < max_attempts - 1
                       THEN specific_prompt(original_prompt, attempt, extracted, predictions)
                       ELSE prompt
          /\ incorrect_predictions' = predictions
          /\ attempt' = NextAttempt(attempt)
          /\ pc' = "get_response"
          /\ UNCHANGED <<ret, err, outcome>>
     ELSE /\ incorrect_predictions' = reset_incorrect_predictions(predictions)
          /\ prompt' = original_prompt
          /\ ret' = NONE
          /\ pc' = "returned"
          /\ outcome' = "EXHAUSTED"
          /\ UNCHANGED <<attempt, err>>

\* the round goes on to its next call
Continue(position) ==
  /\ pc' = position
  /\ UNCHANGED <<instance, attempt, ret, err, outcome>>

\* entry of __call__ up to the first round
Call ==
  /\ pc = "call"
  /\ sessions < MaxSessions
  /\ sessions' = sessions + 1
  /\ \/ /\ original_prompt' = prompt
        /\ attempt' = 0
        /\ pc' = "get_response"
        /\ UNCHANGED <<err, outcome>>
     \/ /\ pc' = "raised"      \* the photograph cannot be fetched or found
        /\ err' = "other"
        /\ outcome' = "RAISED"
        /\ UNCHANGED <<original_prompt, attempt>>
  /\ UNCHANGED <<instance, answer, extracted_number, corrected_number, ret, requests,
                 encodeFrame, reduceFrame, ghost>>
  /\ UNCHANGED pure

\* get_response returns a text; __call__ parses it
GetResponseOk ==
  /\ pc = "get_response"
  /\ \E quota \in QuotaRuns, text \in Answers :
       LET r == ResponseOf[quota]["text"]
           number == ExtractedOf[text]
       IN  /\ r.status = "text"
           /\ requests' = r.requests
           /\ extracted_number' = number
           /\ IF ~IsNone(number)
              THEN /\ answer' = text
                   /\ UNCHANGED corrected_number
                   /\ Continue("validate")
              ELSE EndRound(incorrect_predictions, number)
  /\ calls' = calls + 1
  /\ UNCHANGED <<original_prompt, encodeFrame, reduceFrame,
                 sessions, nValidate, nCorrect, lastOracle>>
  /\ UNCHANGED pure

\* get_response gives up: every request was answered with a quota error
GetResponseExhausted ==
  /\ pc = "get_response"
  /\ \E quota \in QuotaRuns :
       LET r == ResponseOf[quota]["text"]
       IN  /\ r.status = "exhausted"
           /\ requests' = r.requests
  /\ Raise("exhausted")    \* "Max retries reached. Unable to get a response."
  /\ calls' = calls + 1
  /\ UNCHANGED <<original_prompt, encodeFrame, reduceFrame,
                 sessions, nValidate, nCorrect, lastOracle>>
  /\ UNCHANGED pure

\* get_response re-raises an error that is not a quota error
GetResponseError ==
  /\ pc = "get_response"
  /\ \E quota \in QuotaRuns :
       LET r == ResponseOf[quota]["error"]
       IN  /\ r.status = "error"
           /\ requests' = r.requests
  /\ Raise("other")
  /\ calls' = calls + 1
  /\ UNCHANGED <<original_prompt, encodeFrame, reduceFrame,
                 sessions, nValidate, nCorrect, lastOracle>>
  /\ UNCHANGED pure

\* validate_number(extracted_number) and the branch on its result
ValidateNumber ==
  /\ pc = "validate"
  /\ \E valid \in Verdicts :
       /\ lastOracle' = ValidatorRequest(extracted_number, valid)
       /\ IF valid
          THEN /\ Continue("double_check")
               /\ answer' = NoValue
               /\ UNCHANGED corrected_number
          ELSE EndRound(Append(incorrect_predictions, extracted_number), extracted_number)
  /\ nValidate' = nValidate + 1
  /\ requests' = 0
  /\ UNCHANGED <<original_prompt, extracted_number,
                 encodeFrame, reduceFrame, sessions, nCorrect, calls>>
  /\ UNCHANGED pure

\* double_check_confused_digits(extracted_number) and the branch on its result
DoubleCheck ==
  /\ pc = "double_check"
  /\ \E response \in CorrectionResponses :
       IF Contains(response, "<CORRECTED>")
       THEN /\ corrected_number' =
                 Strip(Split(Split(response, "<CORRECTED>")[2], "\n")[1])
            /\ UNCHANGED answer
            /\ Continue("final_validation")
       ELSE IF Contains(response, "<UNCHANGED>")
            THEN Accept(extracted_number)
            ELSE EndRound(incorrect_predictions, extracted_number)
  /\ nCorrect' = nCorrect + 1
  /\ UNCHANGED <<original_prompt, extracted_number, requests, encodeFrame,
                 reduceFrame, sessions, nValidate, lastOracle, calls>>
  /\ UNCHANGED pure

\* validate_number(corrected_number) and the branch on its result
FinalValidation ==
  /\ pc = "final_validation"
  /\ \E valid \in Verdicts :
       /\ lastOracle' = ValidatorRequest(corrected_number, valid)
       /\ IF valid
          THEN Accept(FinalResult(extracted_number, corrected_number))
          ELSE EndRound(RejectCorrected(incorrect_predictions, extracted_number,
                                        corrected_number),
                        extracted_number)
  /\ nValidate' = nValidate + 1
  /\ UNCHANGED <<original_prompt, extracted_number, requests,
                 encodeFrame, reduceFrame, sessions, nCorrect, calls>>
  /\ UNCHANGED pure

\* validate_number or double_check_confused_digits raises: neither retries
OracleError ==
  /\ pc \in {"validate", "double_check", "final_validation"}
  /\ \E kind \in ErrorKinds : Raise(kind)
  /\ requests' = 0
  /\ UNCHANGED <<original_prompt, encodeFrame, reduceFrame, sessions, ghost>>
  /\ UNCHANGED pure

(***************************************************************************)
(* main.py: encode and reduce.                                             *)
(***************************************************************************)

\* detail_number.lower().strip() == 'none'
NotFound(detail_number) == Strip(Lower(detail_number)) = <<"n", "o", "n", "e">>

Range(seq) == {seq[i] : i \in 1..Len(seq)}

\* the record encode returns for a listing
Record(detail_number, url, target_image_link, page_img_links) ==
  [predicted_number |-> detail_number,
   url |-> url,
   price |-> "price",
   correct_image_link |-> target_image_link,
   incorrect_image_links |-> page_img_links \ {target_image_link}]

\* for (k, v) in encoded_data.items(): result[k].append(v)
AppendRecord(res, rec) ==
  [k \in DOMAIN res |-> Append(res[k], rec[k])]

ClearFrame ==
  /\ attempt' = 0
  /\ original_prompt' = <<>>
  /\ answer' = NoValue
  /\ extracted_number' = NoValue
  /\ corrected_number' = NoValue
  /\ requests' = 0
  /\ ret' = NoValue
  /\ calls' = 0
  /\ nValidate' = 0
  /\ nCorrect' = 0
  /\ lastOracle' = NoOracle

\* the for loop of reduce moves to the next listing, or reduce returns
NextLink ==
  /\ link' = link + 1
  /\ rattempt' = 0
  /\ pc' = IF link < Len(links) THEN "reduce" ELSE "done"
  /\ images_probs' = <<>>
  /\ pass' = 1
  /\ idx' = 1

\* reduce appends the record encode returned and, at every save_every-th
\* listing, saves the result; save_intermediate_results can raise when the
\* pickle file cannot be written either
AppendAndSave(rec) ==
  /\ result' = AppendRecord(result, rec)
  /\ \/ /\ NextLink
        /\ UNCHANGED err
     \/ /\ link % save_every = 0
        /\ pc' = "raised"
        /\ \E kind \in ErrorKinds : err' = kind
        /\ UNCHANGED <<link, rattempt, encodeFrame>>

\* reduce calls encode, which ranks the photographs and enters its first loop
ReduceTry ==
  /\ pc = "reduce"
  /\ \E ranking \in Rankings :
       /\ images_probs' = ranking
       /\ pass' = 1
       /\ idx' = 1
       /\ IF ranking # <<>>
          THEN /\ pc' = "call"
               /\ UNCHANGED err
          ELSE /\ pc' = "raised"      \* detail_number is unbound at main.py:87
               /\ err' = "other"
  /\ UNCHANGED <<instance, frame, ret, reduceFrame, sessions, ghost, outcome>>
  /\ UNCHANGED pure

\* slip: the loop starts over after every photograph
NextPhotographFromTop(i, n) == 1

\* position of the next photograph: the next one of the loop, or the first
\* one of the second loop after the last one of the first
NextPhotograph(i, n) == IF i < n THEN i + 1 ELSE 1

\* encode takes the value a session returned: next photograph, second loop, or record
EncodeNext ==
  /\ pc = "returned"
  /\ NotFound(ret)
  /\ \/ idx < Len(images_probs)
     \/ pass = 1
  /\ idx' = NextPhotograph(idx, Len(images_probs))
  /\ pass' = IF idx < Len(images_probs) THEN pass ELSE 2
  /\ pc' = "call"
  /\ ClearFrame
  /\ UNCHANGED <<instance, err, images_probs, reduceFrame, sessions, outcome>>
  /\ UNCHANGED pure

\* encode loads the product info and returns; reduce appends the record
EncodeReturn ==
  /\ pc = "returned"
  /\ ~NotFound(ret) \/ (idx = Len(images_probs) /\ pass = 2)
  /\ \/ AppendAndSave(Record(ret, links[link], images_probs[idx],
                              Range(images_probs)))
     \/ /\ pc' = "raised"      \* load_product_info fails
        /\ err' = "other"
        /\ UNCHANGED <<result, link, rattempt, encodeFrame>>
  /\ ClearFrame
  /\ UNCHANGED <<instance, ignore_error, links, sessions, outcome>>
  /\ UNCHANGED pure

\* the except clause of reduce
ReduceExcept ==
  /\ pc = "raised"
  /\ IF err = "quota"
     THEN IF rattempt < reduce_max_retries - 1
          THEN /\ rattempt' = rattempt + 1
               /\ pc' = "reduce"
               /\ images_probs' = <<>>
               /\ pass' = 1
               /\ idx' = 1
               /\ UNCHANGED link
          ELSE NextLink
     ELSE IF ~ignore_error
          THEN /\ pc' = "done"
               /\ UNCHANGED <<link, rattempt, encodeFrame>>
          ELSE NextLink
  /\ err' = "none"
  /\ ClearFrame
  /\ UNCHANGED <<instance, ignore_error, links, result, sessions, outcome>>
  /\ UNCHANGED pure

Next ==
  \/ ReduceTry
  \/ Call
  \/ GetResponseOk
  \/ GetResponseExhausted
  \/ GetResponseError
  \/ ValidateNumber
  \/ DoubleCheck
  \/ FinalValidation
  \/ OracleError
  \/ EncodeNext
  \/ EncodeReturn
  \/ ReduceExcept

Spec == Init /\ [][Next]_vars

(***************************************************************************)
(* extract_number, format_part_number and the test of the validation       *)
(* result on their own: the argument is drawn from Responses, Numbers or   *)
(* OracleResponses and the function is applied to it.  The retry loop of   *)
(* get_response, which Spec takes in one step, is run pass by pass.        *)
(***************************************************************************)

program == <<instance, frame, ret, err, encodeFrame, reduceFrame, sessions,
             ghost, outcome>>

FunctionInit ==
  /\ prompt = <<>>
  /\ incorrect_predictions = <<>>
  /\ attempt = 0
  /\ original_prompt = <<>>
  /\ answer = NoValue
  /\ extracted_number = NoValue
  /\ corrected_number = NoValue
  /\ requests = 0
  /\ ret = NoValue
  /\ err = "none"
  /\ images_probs = <<>>
  /\ pass = 1
  /\ idx = 1
  /\ link = 1
  /\ rattempt = 0
  /\ ignore_error = FALSE
  /\ links = all_links
  /\ result = EmptyResult
  /\ sessions = 0
  /\ calls = 0
  /\ nValidate = 0
  /\ nCorrect = 0
  /\ lastOracle = NoOracle
  /\ outcome = "none"
  /\ formatted_number = NoValue
  /\ delay = 0
  /\ \/ /\ pc = "extract_number"
        /\ raw_text \in Responses
        /\ part_number = NoValue
     \/ /\ pc = "format_part_number"
        /\ raw_text = NoValue
        /\ part_number \in Numbers
     \/ /\ pc = "validation_result"
        /\ raw_text \in OracleResponses
        /\ part_number = NoValue
     \/ /\ pc = "generate_content"
        /\ raw_text = NoValue
        /\ part_number = NoValue

\* extract_number(raw_text)
ExtractNumber ==
  /\ pc = "extract_number"
  /\ part_number' = extract_number(raw_text)
  /\ pc' = "extracted"
  /\ UNCHANGED <<raw_text, formatted_number, delay, program>>

\* format_part_number(part_number)
FormatPartNumber ==
  /\ pc = "format_part_number"
  /\ formatted_number' = format_part_number(part_number)
  /\ pc' = "formatted"
  /\ UNCHANGED <<raw_text, part_number, delay, program>>

\* format_part_number applied to its own result
FormatAgain ==
  /\ pc = "formatted"
  /\ part_number' = formatted_number
  /\ formatted_number' = format_part_number(formatted_number)
  /\ pc' = "formatted_again"
  /\ UNCHANGED <<raw_text, delay, program>>

\* if "<VALID>" in validation_result, on the text of raw_text
ValidationResult ==
  /\ pc = "validation_result"
  /\ lastOracle' = ValidatorRequest(NoValue, IsValid(raw_text))
  /\ pc' = "verdict"
  /\ UNCHANGED <<pure, instance, frame, ret, err, encodeFrame, reduceFrame, sessions,
                 calls, nValidate, nCorrect, outcome>>

\* random.uniform(0, 1), at its ends
Jitters == {0, 1}

\* delay = base_delay * (2 ** attempt) + random.uniform(0, 1)
Delay(att, jitter) == base_delay * 2^att + jitter

\* one pass of the retry loop of get_response; requests is the loop's attempt.
\* The request fails with a quota error: the delay is computed and slept.
QuotaError ==
  /\ pc = "generate_content"
  /\ \E jitter \in Jitters : delay' = Delay(requests, jitter)
  /\ requests' = requests + 1
  /\ IF requests + 1 < max_retries
     THEN /\ pc' = "generate_content"
          /\ UNCHANGED err
     ELSE /\ pc' = "raised"
          /\ err' = "exhausted"
  /\ UNCHANGED <<raw_text, part_number, formatted_number, instance, attempt,
                 original_prompt, answer, extracted_number, corrected_number, ret,
                 encodeFrame, reduceFrame, sessions, ghost, outcome>>

\* the request is answered: return response.text
ResponseText ==
  /\ pc = "generate_content"
  /\ requests' = requests + 1
  /\ pc' = "response_text"
  /\ UNCHANGED <<pure, instance, attempt, original_prompt, answer, extracted_number,
                 corrected_number, ret, err, encodeFrame, reduceFrame, sessions,
                 ghost, outcome>>

\* the request fails with another error: raise
OtherError ==
  /\ pc = "generate_content"
  /\ requests' = requests + 1
  /\ pc' = "raised"
  /\ err' = "other"
  /\ UNCHANGED <<pure, instance, attempt, original_prompt, answer, extracted_number,
                 corrected_number, ret, encodeFrame, reduceFrame, sessions,
                 ghost, outcome>>

FunctionNext ==
  \/ ExtractNumber
  \/ FormatPartNumber
  \/ FormatAgain
  \/ ValidationResult
  \/ QuotaError
  \/ ResponseText
  \/ OtherError

FunctionSpec == FunctionInit /\ [][FunctionNext]_vars

(***************************************************************************)
(* reduce on its own: encode is taken in one step, which returns a record  *)
(* or raises, over MaxLinks listings named by their position.              *)
(***************************************************************************)

ReduceInit ==
  /\ prompt = <<>>
  /\ incorrect_predictions = <<>>
  /\ pc = "reduce"
  /\ attempt = 0
  /\ original_prompt = <<>>
  /\ answer = NoValue
  /\ extracted_number = NoValue
  /\ corrected_number = NoValue
  /\ requests = 0
  /\ ret = NoValue
  /\ err = "none"
  /\ images_probs = <<>>
  /\ pass = 1
  /\ idx = 1
  /\ link = 1
  /\ rattempt = 0
  /\ ignore_error \in BOOLEAN
  /\ links = [i \in 1..MaxLinks |-> i]
  /\ result = EmptyResult
  /\ sessions = 0
  /\ calls = 0
  /\ nValidate = 0
  /\ nCorrect = 0
  /\ lastOracle = NoOracle
  /\ outcome = "none"
  /\ raw_text = NoValue
  /\ part_number = NoValue
  /\ formatted_number = NoValue
  /\ delay = 0

\* encode returns a record for the listing; reduce appends it and saves
EncodeReturns ==
  /\ pc = "reduce"
  /\ AppendAndSave(Record(<<"5", "K", "0", " ", "9", "3", "7", " ", "0", "8", "7">>,
                          links[link], "p1", {"p1", "p2"}))
  /\ UNCHANGED <<instance, frame, ret, ignore_error, links, sessions, ghost, outcome>>
  /\ UNCHANGED pure

\* encode raises: a quota error of the oracle, or any other error
EncodeRaises ==
  /\ pc = "reduce"
  /\ pc' = "raised"
  /\ \E kind \in ErrorKinds : err' = kind
  /\ UNCHANGED <<instance, frame, ret, encodeFrame, reduceFrame, sessions, ghost, outcome>>
  /\ UNCHANGED pure

ReduceNext ==
  \/ EncodeReturns
  \/ EncodeRaises
  \/ ReduceExcept

ReduceSpec == ReduceInit /\ [][ReduceNext]_vars

(***************************************************************************)
(* Properties.                                                             *)
(***************************************************************************)

InSession == pc \in {"get_response", "validate", "double_check", "final_validation"}

\* a session is about to start or has just started
AtSessionStart == pc = "call" \/ (pc = "get_response" /\ calls = 0)

\* C1: a session invokes get_response at most max_attempts times, and a
\* session that ends EXHAUSTED (no verdict accepted, no call failed) has
\* invoked it exactly max_attempts times.
C1_RoundCap ==
  /\ calls <= max_attempts
  /\ (pc = "returned" /\ outcome = "EXHAUSTED") => calls = max_attempts

\* an EXHAUSTED session in which every round's candidate was rejected
C1_Witness ==
  /\ pc = "returned"
  /\ outcome = "EXHAUSTED"
  /\ nValidate = max_attempts
  /\ nCorrect = 0
  /\ calls = max_attempts

\* C2: when the previous session ended ACCEPTED or EXHAUSTED, Rejection
\* Memory is empty at the start of the next session.
C2_MemoryResetAfterTerminal ==
  (AtSessionStart /\ outcome \in {"ACCEPTED", "EXHAUSTED"})
    => Len(incorrect_predictions) = 0

\* the second session starts after a session that ended EXHAUSTED
C2_Witness ==
  /\ pc = "get_response"
  /\ calls = 0
  /\ sessions = 2
  /\ outcome = "EXHAUSTED"

\* C3: Rejection Memory is empty at the start of every session, whatever
\* ended the previous one (ACCEPTED, EXHAUSTED or an error).
C3_MemoryNeverLeaks ==
  AtSessionStart => incorrect_predictions = <<>>

\* steps a session can still take: four calls for each round left, less the
\* calls of the current round that are done
Position ==
  CASE pc = "get_response" -> 0
    [] pc = "validate" -> 1
    [] pc = "double_check" -> 2
    [] pc = "final_validation" -> 3
    [] OTHER -> 0

Rank == IF InSession THEN 4 * (max_attempts - attempt) - Position ELSE 0

\* C4: a session terminates after a bounded number of calls: every step of a
\* running session issues at most max_retries requests and strictly lowers
\* Rank, which is never negative.
C4_SessionTerminates ==
  [][InSession => /\ 0 <= Rank'
                  /\ Rank' < Rank
                  /\ requests' <= max_retries]_vars

\* the longest session: every round validates, corrects and validates again
C4_Witness ==
  /\ pc = "returned"
  /\ outcome = "EXHAUSTED"
  /\ calls = max_attempts
  /\ nCorrect = max_attempts
  /\ nValidate = 2 * max_attempts

\* C5: a returned identifier is the subject of the last validate_number call
\* of the session, whose result was CONFIRMED; when the correction pass
\* proposed a candidate, that candidate is the one returned.
C5_ReturnedIsConfirmed ==
  (pc = "returned" /\ ret # NONE)
    => /\ lastOracle.called
       /\ lastOracle.confirmed
       /\ lastOracle.subject = ret
       /\ corrected_number # NoValue => ret = corrected_number

\* a corrected candidate, different from the extracted one, is returned
C5_Witness ==
  /\ pc = "returned"
  /\ outcome = "ACCEPTED"
  /\ corrected_number # NoValue
  /\ corrected_number # extracted_number
  /\ ret = corrected_number

\* C6: a candidate proposed by the correction pass goes to validate_number
\* next; when that validation is not CONFIRMED nothing is raised, and the
\* corrected candidate is appended to Rejection Memory and the next round
\* starts, or, in the last round, the session ends EXHAUSTED.
C6_CorrectedIsRevalidated ==
  [][/\ (pc = "double_check" /\ corrected_number' # NoValue)
          => pc' = "final_validation"
     /\ (pc = "final_validation" /\ nValidate' = nValidate + 1
           /\ ~lastOracle'.confirmed)
          => /\ lastOracle'.subject = corrected_number
             /\ IF attempt < max_attempts - 1
                THEN /\ pc' = "get_response"
                     /\ attempt' = attempt + 1
                     /\ incorrect_predictions' =
                          Append(incorrect_predictions, corrected_number)
                ELSE /\ pc' = "returned"
                     /\ outcome' = "EXHAUSTED"
                     /\ ret' = NONE]_vars

\* the next round has started after a corrected candidate failed validation
C6_Witness ==
  /\ pc = "get_response"
  /\ attempt = 1
  /\ nCorrect = 1
  /\ nValidate = 2
  /\ ~lastOracle.confirmed
  /\ lastOracle.subject # extracted_number
  /\ incorrect_predictions = <<lastOracle.subject>>

\* C7: an identifier returned by an ACCEPTED session is in canonical form.
C7_ReturnedIsCanonical ==
  (pc = "returned" /\ outcome = "ACCEPTED") => format_part_number(ret) = ret

NoDelimiters(text) == ~Contains(text, "<START>") /\ ~Contains(text, "<END>")

\* C8: an answer without delimiters parses to NONE and its round makes no
\* validate_number call.
C8_NoDelimitersIsNone ==
  ~(pc = "validate" /\ NoDelimiters(answer))

\* NONE in any letter case
SaysNone(x) == Upper(x) = <<"N", "O", "N", "E">>

\* C9: a round whose parsed extraction is NONE in any letter case calls
\* neither validate_number nor double_check_confused_digits, leaves Rejection
\* Memory as it is, and uses up one round: the next round starts, or the
\* session ends EXHAUSTED when it was the last.
C9_NoneRound ==
  [][(pc = "get_response" /\ calls' = calls + 1 /\ pc' # "raised"
        /\ SaysNone(extracted_number'))
       => /\ nValidate' = nValidate
          /\ nCorrect' = nCorrect
          /\ IF attempt < max_attempts - 1
             THEN /\ pc' = "get_response"
                  /\ attempt' = attempt + 1
                  /\ incorrect_predictions' = incorrect_predictions
             ELSE /\ pc' = "returned"
                  /\ outcome' = "EXHAUSTED"]_vars

\* the second round has started after a lower-case none
C9_Witness ==
  /\ pc = "get_response"
  /\ attempt = 1
  /\ calls = 1
  /\ extracted_number = <<"n", "o", "n", "e">>
  /\ nValidate = 0
  /\ nCorrect = 0

\* C10: a candidate that is in Rejection Memory is not submitted to
\* validate_number again in the same session.
C10_RejectedNotResubmitted ==
  ~(pc = "validate" /\ attempt > 0
      /\ \E i \in 1..Len(incorrect_predictions) :
           incorrect_predictions[i] = extracted_number)

\* C11: when validate_number does not confirm a candidate and rounds remain,
\* the round is used up, the candidate is the newest entry of Rejection
\* Memory, and the instruction of the next get_response call lists every
\* entry of Rejection Memory, that candidate included.
C11_RejectedIsListed ==
  /\ pc = "get_response" => calls = attempt
  /\ (pc = "get_response" /\ lastOracle.called /\ ~lastOracle.confirmed)
       => /\ attempt >= 1
          /\ incorrect_predictions # <<>>
          /\ incorrect_predictions[Len(incorrect_predictions)] = lastOracle.subject
          /\ prompt # <<>>
          /\ prompt[Len(prompt)].n = attempt + 1
          /\ prompt[Len(prompt)].listed = Join(incorrect_predictions)

\* the third round is about to ask with both rejected candidates listed
C11_Witness ==
  /\ pc = "get_response"
  /\ attempt = 2
  /\ nValidate = 2
  /\ nCorrect = 0
  /\ ~lastOracle.confirmed
  /\ Len(incorrect_predictions) = 2
  /\ prompt[Len(prompt)].listed = Join(incorrect_predictions)

\* the text has a start delimiter and an end delimiter after the last one
Delimited(text) ==
  \E i \in 1..Len(text) :
    /\ text[i] = "<START>"
    /\ \A k \in (i + 1)..Len(text) : text[k] # "<START>"
    /\ \E j \in (i + 1)..Len(text) : text[j] = "<END>"

\* the tokens strictly between the last start delimiter and the first end
\* delimiter after it
Between(text) ==
  LET i == CHOOSE k \in 1..Len(text) :
             text[k] = "<START>" /\ \A m \in (k + 1)..Len(text) : text[m] # "<START>"
      j == CHOOSE k \in (i + 1)..Len(text) :
             text[k] = "<END>" /\ \A m \in (i + 1)..(k - 1) : text[m] # "<END>"
  IN  SubSeq(text, i + 1, j - 1)

\* C12: for a text with both delimiters, extract_number returns the part
\* strictly between the last <START> and the first <END> after it, trimmed,
\* and canonicalized unless it is NONE in any letter case; the text
\* "b<START> 5K0937087AC <END>b" parses to "5K0 937 087 AC".
C12_ParserTakesDelimitedPart ==
  (pc = "extracted" /\ Delimited(raw_text))
    => /\ part_number = IF SaysNone(Strip(Between(raw_text)))
                        THEN Strip(Between(raw_text))
                        ELSE format_part_number(Strip(Between(raw_text)))
       /\ Between(raw_text)
            = <<" ", "5", "K", "0", "9", "3", "7", "0", "8", "7", "A", "C", " ">>
          => part_number = <<"5", "K", "0", " ", "9", "3", "7", " ", "0", "8", "7",
                             " ", "A", "C">>

\* the scenario text
C12_Witness ==
  /\ pc = "extracted"
  /\ raw_text = <<"b", "<START>", " ", "5", "K", "0", "9", "3", "7",
                  "0", "8", "7", "A", "C", " ", "<END>", "b">>
  /\ part_number = <<"5", "K", "0", " ", "9", "3", "7", " ", "0", "8", "7",
                     " ", "A", "C">>

\* C13: format_part_number applied to its own result returns that result.
C13_CanonicalizationIdempotent ==
  pc = "formatted_again" => formatted_number = part_number

\* the characters format_part_number keeps: all but hyphens and spaces
Payload(x) == SelectSeq(x, LAMBDA c : c \notin {"-", " "})

Alphanumeric(x) == \A i \in 1..Len(x) : x[i] \notin Whitespace \cup {"-"}

\* C14: a 9-character payload comes out as three groups of 3 separated by
\* single spaces, an 11-character payload as those groups and a fourth group
\* of the remaining 2 characters.
C14_GroupsByPosition ==
  (pc = "formatted" /\ Alphanumeric(Payload(part_number)))
    => LET p == Payload(part_number)
           three == <<p[1], p[2], p[3], " ", p[4], p[5], p[6], " ", p[7], p[8], p[9]>>
       IN  /\ Len(p) = 9 => formatted_number = three
           /\ Len(p) = 11 => formatted_number = three \o <<" ", p[10], p[11]>>

\* an 11-character payload written with hyphens is regrouped
C14_Witness ==
  /\ pc = "formatted"
  /\ part_number = <<"-", "5", "K", "0", "9", "3", "7", "0", "8", "7", "A", "C", " ">>
  /\ formatted_number = <<"5", "K", "0", " ", "9", "3", "7", " ", "0", "8", "7",
                          " ", "A", "C">>

\* C15: no get_response call issues more than max_retries requests; a call
\* whose every request fails with a quota error issues exactly max_retries
\* requests and then fails with the exhausted-retries error.
C15_RequestsBounded ==
  /\ requests <= max_retries
  /\ (pc = "raised" /\ err = "exhausted") => requests = max_retries
  /\ \A quota \in QuotaRuns, final \in {"text", "error"} :
       quota >= max_retries
         => ResponseOf[quota][final]
              = [status |-> "exhausted", requests |-> max_retries]

\* the second round's get_response call gave up after max_retries requests
C15_Witness ==
  /\ pc = "raised"
  /\ err = "exhausted"
  /\ calls = 2
  /\ requests = max_retries

\* a call of the session: to the extraction, validation or correction model
SessionStep ==
  \/ GetResponseOk
  \/ GetResponseExhausted
  \/ GetResponseError
  \/ ValidateNumber
  \/ DoubleCheck
  \/ FinalValidation
  \/ OracleError

\* C16: an error that is not a quota error ends the call at the request that
\* raised it, and once an error has left the session no call of the session
\* can follow.
C16_OtherErrorPropagates ==
  /\ \A quota \in QuotaRuns :
       quota < max_retries
         => ResponseOf[quota]["error"]
              = [status |-> "error", requests |-> quota + 1]
  /\ (pc = "raised" /\ err = "other" /\ calls > 0) => requests <= max_retries
  /\ pc = "raised" => ~ENABLED SessionStep

\* the second round's get_response call failed on its first request
C16_Witness ==
  /\ pc = "raised"
  /\ err = "other"
  /\ calls = 2
  /\ nValidate = 1
  /\ requests = 1

\* C17: a quota error never leaves the session: the session does not raise
\* because of quota errors, whether in get_response, validate_number or
\* double_check_confused_digits.
C17_QuotaNeverSurfaces ==
  ~(pc = "raised" /\ err \in {"quota", "exhausted"})

C20_RecordedNumber ==
  [][/\ (pc = "returned" /\ pc' = "call") => outcome = "EXHAUSTED"
     /\ Len(result'.predicted_number) = Len(result.predicted_number) + 1
          => LET d == result'.predicted_number[Len(result'.predicted_number)]
             IN  /\ pc = "returned"
                 /\ outcome \in {"ACCEPTED", "EXHAUSTED"}
                 /\ outcome = "EXHAUSTED" => d = NONE
                 /\ outcome = "ACCEPTED" => d = ret]_vars

\* C21: three consecutive NONE extractions end the session EXHAUSTED after
\* the third, with no fourth get_response call, and it is a cap on
\* consecutive NONE extractions that ends it: the round counter has not
\* reached the round cap.
C21_NoneCapBeforeRoundCap ==
  /\ nValidate = 0 => calls <= 3
  /\ (pc = "returned" /\ outcome = "EXHAUSTED" /\ calls = 3 /\ nValidate = 0)
       => attempt + 1 < max_attempts

\* C22: at the start of every session the active instruction self.prompt is
\* the base instruction of construction (no block appended), whatever ended
\* the previous session: ACCEPTED, EXHAUSTED or an error.
C22_InstructionResetBetweenSessions ==
  AtSessionStart => prompt = <<>>

\* C23: a validation result that contains <INVALID> is not CONFIRMED, even
\* when it contains <VALID> as well, and a result that contains neither tag
\* is CONFIRMED.
C23_VerdictPrecedence ==
  pc = "verdict" => (lastOracle.confirmed <=> ~Contains(raw_text, "<INVALID>"))

\* C24: the delay slept after the quota error of attempt k is
\* base_delay * 2^k + jitter with jitter in [0, 1], and no delay above the
\* ceiling of 300 seconds is slept.
C24_BackoffBelowCeiling ==
  (pc \in {"generate_content", "raised"} /\ err # "other" /\ requests > 0)
    => /\ \E jitter \in Jitters : delay = Delay(requests - 1, jitter)
       /\ delay <= 300

\* C25: every validate_number call of a session, the first validation and
\* the validation of a corrected candidate alike, is given the photograph of
\* the session together with the candidate.
C25_OracleSeesPhotograph ==
  (lastOracle.called /\ pc \in {"get_response", "double_check", "final_validation",
                                 "returned"})
    => lastOracle.image = images_probs[idx]

\* C26: a round that extracted a candidate (not NONE) and is followed by
\* another round has added exactly one candidate to Rejection Memory, also
\* when the oracle confirmed the candidate and the correction pass answered
\* with neither tag.
C26_RoundRecordsRejection ==
  [][(InSession /\ pc' = "get_response" /\ attempt' = attempt + 1
        /\ ~SaysNone(extracted_number'))
       => Len(incorrect_predictions') = Len(incorrect_predictions) + 1]_vars

\* C27: the value an ACCEPTED session returns, the extracted candidate or
\* the corrected one, is not empty and is not NONE in any letter case, so
\* encode does not take it for not found.
C27_AcceptedIsNotNone ==
  (pc = "returned" /\ outcome = "ACCEPTED")
    => /\ ret # <<>>
       /\ ~SaysNone(ret)
       /\ ~NotFound(ret)

\* C28: format_part_number keeps the payload (the input without hyphens and
\* spaces) and only regroups it: a payload of 9 characters or more comes out
\* as three groups of 3 and, when characters remain, one more group with all
\* of them, and the output without its spaces is the payload; a shorter
\* payload comes out as it is.
C28_PayloadPreserved ==
  pc = "formatted"
    => LET p == Payload(part_number)
           out == formatted_number
       IN  IF Len(p) < 9
           THEN out = p
           ELSE /\ Remove(out, " ") = p
                /\ Len(out) = IF Len(p) = 9 THEN 11 ELSE Len(p) + 3
                /\ SubSeq(out, 1, 11)
                     = SubSeq(p, 1, 3) \o <<" ">> \o SubSeq(p, 4, 6) \o <<" ">>
                         \o SubSeq(p, 7, 9)
                /\ Len(p) > 9 => SubSeq(out, 12, Len(out)) = <<" ">> \o SubSeq(p, 10, Len(p))

\* C29: in the record of a listing correct_image_link names a photograph
\* only if the session on that photograph ended ACCEPTED,
\* incorrect_image_links holds every other photograph of the listing, and a
\* record whose predicted_number is NONE names no photograph as the correct
\* one.
C29_CorrectLinkIsAccepted ==
  [][Len(result'.url) = Len(result.url) + 1
       => LET k == Len(result'.url)
              correct == result'.correct_image_link[k]
          IN  /\ correct \in Range(images_probs)
                   => (outcome = "ACCEPTED" /\ correct = images_probs[idx])
              /\ result'.incorrect_image_links[k] = Range(images_probs) \ {correct}
              /\ SaysNone(result'.predicted_number[k])
                   => correct \notin Range(images_probs)]_vars

\* C30: for a listing whose ranking is empty encode starts no session, raises
\* nothing and returns a record whose predicted_number is NONE.
C30_EmptyRankingGivesNone ==
  [][(pc = "reduce" /\ images_probs' = <<>>)
       => /\ sessions' = sessions
          /\ pc' # "raised"
          /\ Len(result'.predicted_number) = Len(result.predicted_number) + 1
          /\ result'.predicted_number[Len(result'.predicted_number)] = NONE]_vars

\* the five columns of result have the same length
ColumnsAligned(res) == \A k \in DOMAIN res : Len(res[k]) = Len(res.url)

\* no listing has more than one record in result
OneRecordEach(res) ==
  \A i, j \in 1..Len(res.url) : res.url[i] = res.url[j] => i = j

\* C31: between the listing iterations of reduce the five columns of result
\* have equal length and no listing has more than one record, however often
\* it was retried; when an error that is not a quota error stops the run
\* (ignore_error false), reduce returns the records it had, unchanged.
C31_PartialResultsSurvive ==
  [][/\ ColumnsAligned(result')
     /\ OneRecordEach(result')
     /\ (pc = "raised" /\ pc' = "done") => result' = result]_vars

====
